---- MODULE Spec2Model ----
(***************************************************************************)
(* Headline clustering and normalisation pipeline of oil_news_monitor.     *)
(*                                                                         *)
(* Spec      cluster_by_cosine_threshold (nlp_utils_no_sklearn.py), run    *)
(*           pass by pass, and called again with another threshold.        *)
(* SpecNorm  the normalisation steps of app_pro_lean.py / app_pro.py:      *)
(*           map(_norm), date filter, empty stop, drop_duplicates.         *)
(* SpecLive  one call of cluster_by_cosine_threshold under weak fairness.  *)
(* SpecReorder  the same call on a list and on a reordering of it.         *)
(* SpecEmbed, SpecKw, SpecSent, SpecMood, SpecTheme, SpecHybrid            *)
(*           embed_titles, the keyword classifiers, the sentiment          *)
(*           function, the mood figures, theme_tally and the hybrid        *)
(*           classifiers, each on its own inputs.                          *)
(* SpecPipe, SpecHeadlines  the two scripts from the fetched list to the   *)
(*           mood figures.                                                 *)
(* SpecRequest  safe_request of news_scraper.py.                           *)
(*                                                                         *)
(* Embeddings are vectors on an integer grid, all of norm 5 (unit vectors  *)
(* scaled by 5), so sims = embeddings @ embeddings.T is an exact integer   *)
(* Gram matrix in units of 1/25; thresholds are in the same unit.          *)
(***************************************************************************)
EXTENDS Integers, Sequences, FiniteSets, TLC

VARIABLES embeddings, threshold, min_size, visited, clusters, group, i, added,
          pc, calls, prevClusters, prevThreshold,
          raw, end_date, days_back, articles, df, npc,
          enable_models, has_tx, has_st,
          etitles, hashfn, embout,
          texts, kres,
          clf, sent,
          counts, mood,
          app, called, cluster_rows, ppc,
          theme,
          hres,
          max_retries, attempt, requests_made, errors, slept, response, rpc

clusterVars == <<embeddings, threshold, min_size, visited, clusters, group, i,
                 added, pc, calls, prevClusters, prevThreshold>>
normVars == <<raw, end_date, days_back, articles, df, npc>>
\* enable_models (the use_llm toggle) and the import flags _HAS_TX, _HAS_ST
envVars == <<enable_models, has_tx, has_st>>
embedVars == <<etitles, hashfn, embout>>
kwVars == <<texts, kres>>
sentVars == <<clf, sent>>
moodVars == <<counts, mood>>
pipeVars == <<app, called, cluster_rows, ppc>>
themeVars == <<theme>>
hybVars == <<hres>>
\* safe_request: its arguments, loop variable, effects and return value
reqVars == <<max_retries, attempt, requests_made, errors, slept, response, rpc>>
moreVars == <<themeVars, hybVars, reqVars>>
restVars == <<envVars, embedVars, kwVars, sentVars, moodVars, pipeVars, moreVars>>
vars == <<embeddings, threshold, min_size, visited, clusters, group, i, added,
          pc, calls, prevClusters, prevThreshold,
          raw, end_date, days_back, articles, df, npc,
          enable_models, has_tx, has_st,
          etitles, hashfn, embout,
          texts, kres,
          clf, sent,
          counts, mood,
          app, called, cluster_rows, ppc,
          theme,
          hres,
          max_retries, attempt, requests_made, errors, slept, response, rpc>>

\* values of the variables of a component that a specification does not run
EnvIdle == enable_models = FALSE /\ has_tx = FALSE /\ has_st = FALSE
EmbedIdle == etitles = <<>> /\ hashfn = <<>> /\ embout = <<>>
KwIdle == texts = <<>> /\ kres = <<>>
SentIdle == clf = <<>> /\ sent = ""
MoodIdle == counts = <<>> /\ mood = <<>>
PipeIdle == app = "" /\ called = {} /\ cluster_rows = <<>> /\ ppc = "idle"
ThemeIdle == theme = <<>>
HybIdle == hres = <<>>
ReqIdle ==
  /\ max_retries = 0
  /\ attempt = 0
  /\ requests_made = 0
  /\ errors = <<>>
  /\ slept = <<>>
  /\ response = "none"
  /\ rpc = "idle"
MoreIdle == ThemeIdle /\ HybIdle /\ ReqIdle
ClusterIdle ==
  /\ embeddings = <<>>
  /\ threshold = 15
  /\ min_size = 1
  /\ visited = {}
  /\ clusters = <<>>
  /\ group = <<>>
  /\ i = 0
  /\ added = FALSE
  /\ pc = "idle"
  /\ calls = 1
  /\ prevClusters = <<>>
  /\ prevThreshold = 0
NormIdle ==
  /\ raw = <<>>
  /\ end_date = [day |-> 0, tod |-> 0]
  /\ days_back = 1
  /\ articles = <<>>
  /\ df = <<>>
  /\ npc = "idle"

\* ---------------------------------------------------------------- bounds
MaxN == 4
MaxMinSize == 3
MaxCalls == 2
MaxArticles == 2
MaxTitles == 2
MaxClusters == 32

\* ---------------------------------------------------------------- inputs
Vectors == {<<5, 0>>, <<4, 3>>, <<0, 5>>, <<-3, 4>>}
Thresholds == {15, 20, 25}

SeqsUpTo(S, m) == UNION {[1..k -> S] : k \in 0..m}

\* ------------------------------------------- cluster_by_cosine_threshold
n == Len(embeddings)

Dot(u, v) == u[1] * v[1] + u[2] * v[2]

\* sims[j,k], indices 0-based as in the code
sims(j, k) == Dot(embeddings[j + 1], embeddings[k + 1])

SeqToSet(s) == {s[x] : x \in 1..Len(s)}

AnySimLE(j, grp) == \E k \in SeqToSet(grp) : sims(j, k) <= threshold
AnySimAll(j, grp) == \A k \in SeqToSet(grp) : sims(j, k) >= threshold
AnySimSeed(j, grp) == sims(j, grp[1]) >= threshold
\* any(sims[j,k] >= threshold for k in group)
AnySim(j, grp) == \E k \in SeqToSet(grp) : sims(j, k) >= threshold

\* one execution of `for j in range(n)` from index j on; the group grows
\* during the scan, so a later j is compared with members added earlier in
\* the same pass.  Result: <<group, visited, added>>.
RECURSIVE ScanFrom(_, _, _, _)
ScanFrom(j, grp, vis, add) ==
  IF j >= n THEN <<grp, vis, add>>
  ELSE IF j \in vis THEN ScanFrom(j + 1, grp, vis, add)
  ELSE IF AnySim(j, grp)
       THEN ScanFrom(j + 1, Append(grp, j), vis \cup {j}, TRUE)
       ELSE ScanFrom(j + 1, grp, vis, add)

\* sorted(group): insertion sort into ascending order
RECURSIVE Insert(_, _)
Insert(x, s) ==
  IF s = <<>> THEN <<x>>
  ELSE IF x <= Head(s) THEN <<x>> \o s
  ELSE <<Head(s)>> \o Insert(x, Tail(s))

RECURSIVE sorted(_)
sorted(s) == IF s = <<>> THEN <<>> ELSE Insert(Head(s), sorted(Tail(s)))

\* [[i] for i in range(n)]
Singletons == [x \in 1..n |-> <<x - 1>>]

Init ==
  /\ embeddings \in SeqsUpTo(Vectors, MaxN)
  /\ threshold \in Thresholds
  /\ min_size \in 1..MaxMinSize
  /\ visited = {}
  /\ clusters = <<>>
  /\ group = <<>>
  /\ i = 0
  /\ added = FALSE
  /\ pc = "for"
  /\ calls = 1
  /\ prevClusters = <<>>
  /\ prevThreshold = 0
  /\ raw = <<>>
  /\ end_date = [day |-> 0, tod |-> 0]
  /\ days_back = 1
  /\ articles = <<>>
  /\ df = <<>>
  /\ npc = "idle"
  /\ EnvIdle /\ EmbedIdle /\ KwIdle /\ SentIdle /\ MoodIdle /\ PipeIdle /\ MoreIdle

\* lines 51-54: next seed of the outer for loop
SeedNoSkip ==
  /\ pc = "for"
  /\ i < n
  /\ group' = <<i>>
  /\ visited' = visited \cup {i}
  /\ added' = TRUE
  /\ pc' = "while"
  /\ UNCHANGED <<i, clusters>>
  /\ UNCHANGED <<embeddings, threshold, min_size, calls, prevClusters, prevThreshold>>
  /\ UNCHANGED <<normVars, restVars>>

Seed ==
  /\ pc = "for"
  /\ i < n
  /\ IF i \in visited
     THEN /\ i' = i + 1
          /\ UNCHANGED <<group, visited, added, pc>>
     ELSE /\ group' = <<i>>
          /\ visited' = visited \cup {i}
          /\ added' = TRUE
          /\ pc' = "while"
          /\ UNCHANGED i
  /\ UNCHANGED clusters
  /\ UNCHANGED <<embeddings, threshold, min_size, calls, prevClusters, prevThreshold>>
  /\ UNCHANGED <<normVars, restVars>>

\* lines 55-60: one pass of the while loop
PassNoReset ==
  /\ pc = "while"
  /\ added
  /\ LET r == ScanFrom(0, group, visited, TRUE)
     IN /\ group' = r[1]
        /\ visited' = r[2]
        /\ added' = r[3]
  /\ UNCHANGED <<i, clusters, pc>>
  /\ UNCHANGED <<embeddings, threshold, min_size, calls, prevClusters, prevThreshold>>
  /\ UNCHANGED <<normVars, restVars>>

Pass ==
  /\ pc = "while"
  /\ added
  /\ LET r == ScanFrom(0, group, visited, FALSE)
     IN /\ group' = r[1]
        /\ visited' = r[2]
        /\ added' = r[3]
  /\ UNCHANGED <<i, clusters, pc>>
  /\ UNCHANGED <<embeddings, threshold, min_size, calls, prevClusters, prevThreshold>>
  /\ UNCHANGED <<normVars, restVars>>

\* lines 61-62: the while loop has ended; keep the group or drop it
RetainAny ==
  /\ pc = "while"
  /\ ~added
  /\ clusters' = Append(clusters, sorted(group))
  /\ i' = i + 1
  /\ pc' = "for"
  /\ UNCHANGED <<group, visited, added>>
  /\ UNCHANGED <<embeddings, threshold, min_size, calls, prevClusters, prevThreshold>>
  /\ UNCHANGED <<normVars, restVars>>

Retain ==
  /\ pc = "while"
  /\ ~added
  /\ clusters' = IF Len(group) >= min_size
                 THEN Append(clusters, sorted(group))
                 ELSE clusters
  /\ i' = i + 1
  /\ pc' = "for"
  /\ UNCHANGED <<group, visited, added>>
  /\ UNCHANGED <<embeddings, threshold, min_size, calls, prevClusters, prevThreshold>>
  /\ UNCHANGED <<normVars, restVars>>

\* lines 63-65: singleton fallback and return
FinishNoFallback ==
  /\ pc = "for"
  /\ i >= n
  /\ pc' = "done"
  /\ UNCHANGED <<clusters, group, visited, added, i>>
  /\ UNCHANGED <<embeddings, threshold, min_size, calls, prevClusters, prevThreshold>>
  /\ UNCHANGED <<normVars, restVars>>

Finish ==
  /\ pc = "for"
  /\ i >= n
  /\ clusters' = IF clusters = <<>> THEN Singletons ELSE clusters
  /\ pc' = "done"
  /\ UNCHANGED <<group, visited, added, i>>
  /\ UNCHANGED <<embeddings, threshold, min_size, calls, prevClusters, prevThreshold>>
  /\ UNCHANGED <<normVars, restVars>>

\* the script runs again after the threshold slider moved: the same
\* embeddings and min_size are clustered at another threshold
Call ==
  /\ pc = "done"
  /\ calls < MaxCalls
  /\ \E t \in Thresholds \ {threshold} : threshold' = t
  /\ prevClusters' = clusters
  /\ prevThreshold' = threshold
  /\ calls' = calls + 1
  /\ visited' = {}
  /\ clusters' = <<>>
  /\ group' = <<>>
  /\ i' = 0
  /\ added' = FALSE
  /\ pc' = "for"
  /\ UNCHANGED <<embeddings, min_size>>
  /\ UNCHANGED <<normVars, restVars>>

Next == Seed \/ Pass \/ Retain \/ Finish \/ Call

Spec == Init /\ [][Next]_vars

\* one call of the function
NextOnce == Seed \/ Pass \/ Retain \/ Finish

\* the function is straight-line sequential code: a statement that can run
\* does run
SpecLive ==
  /\ Init
  /\ [][NextOnce]_vars
  /\ WF_vars(Seed) /\ WF_vars(Pass) /\ WF_vars(Retain) /\ WF_vars(Finish)

\* ------------------------------------- normalisation (app_pro_lean.py)
\* A raw record is a dict.  title: key missing, None, or a string (a
\* sequence of characters); date: key missing, a non-datetime value, or a
\* datetime (calendar day, time of day); url: the record's position in the
\* fetched list, so that a surviving article names the record it came from.
NoDate == [kind |-> "none", day |-> 0, tod |-> 0]

RawTitles ==
  {[kind |-> "missing", val |-> <<>>], [kind |-> "none", val |-> <<>>]} \cup
  {[kind |-> "str", val |-> v] :
     v \in {<<" ">>, <<"a">>, <<"a", " ">>, <<" ", "a">>, <<"b">>}}

RawDates ==
  {[kind |-> "missing", day |-> 0, tod |-> 0], [kind |-> "str", day |-> 0, tod |-> 0]} \cup
  {[kind |-> "datetime", day |-> d[1], tod |-> d[2]] :
     d \in {<<0, 1>>, <<1, 0>>, <<2, 1>>, <<3, 0>>}}

\* str.strip(): remove leading and trailing whitespace
RECURSIVE lstrip(_)
lstrip(s) == IF s # <<>> /\ Head(s) = " " THEN lstrip(Tail(s)) ELSE s

RECURSIVE rstrip(_)
rstrip(s) ==
  IF s # <<>> /\ s[Len(s)] = " " THEN rstrip(SubSeq(s, 1, Len(s) - 1)) ELSE s

strip(s) == rstrip(lstrip(s))

\* a.get("title", "")
GetTitle(a) == IF a.title.kind = "missing" THEN <<>> ELSE a.title.val

\* _norm raises AttributeError when the title value has no .strip()
Raises(a) == a.title.kind = "none"

_norm(a) ==
  [title |-> strip(GetTitle(a)),
   url |-> a.url,
   date |-> IF a.date.kind = "datetime" THEN a.date ELSE NoDate]

\* end_date - timedelta(days=days_back)
start_date == [kind |-> "datetime", day |-> end_date.day - days_back, tod |-> end_date.tod]

\* datetime.date()
date(dt) == dt.day

\* datetime comparison
DtLE(x, y) == x.day < y.day \/ (x.day = y.day /\ x.tod <= y.tod)

InWindowDatetime(a) ==
  a.date = NoDate \/ (DtLE(start_date, a.date) /\ DtLE(a.date, end_date))
\* a["date"] is None or start_date.date() <= a["date"].date() <= end_date.date()
InWindow(a) ==
  a.date = NoDate \/
  (date(start_date) <= date(a.date) /\ date(a.date) <= date(end_date))

RECURSIVE DropDup(_, _)
DropDup(s, seen) ==
  IF s = <<>> THEN <<>>
  ELSE IF Head(s).title \in seen THEN DropDup(Tail(s), seen)
  ELSE <<Head(s)>> \o DropDup(Tail(s), seen \cup {Head(s).title})

RECURSIVE DropDupLast(_)
DropDupLast(s) ==
  IF s = <<>> THEN <<>>
  ELSE IF \E k \in 2..Len(s) : s[k].title = Head(s).title
       THEN DropDupLast(Tail(s))
       ELSE <<Head(s)>> \o DropDupLast(Tail(s))

drop_duplicates_last(s) == DropDupLast(s)
\* DataFrame.drop_duplicates(subset=["title"]).reset_index(drop=True)
drop_duplicates(s) == DropDup(s, {})

InitNorm ==
  /\ \E k \in 0..MaxArticles :
       \E t \in [1..k -> RawTitles], d \in [1..k -> RawDates] :
         raw = [p \in 1..k |-> [title |-> t[p], date |-> d[p], url |-> p]]
  /\ end_date \in {[kind |-> "datetime", day |-> 2, tod |-> t] : t \in {0, 1}}
  /\ days_back \in {1, 2}
  /\ articles = <<>>
  /\ df = <<>>
  /\ npc = "map"
  /\ embeddings = <<>>
  /\ threshold = 15
  /\ min_size = 1
  /\ visited = {}
  /\ clusters = <<>>
  /\ group = <<>>
  /\ i = 0
  /\ added = FALSE
  /\ pc = "idle"
  /\ calls = 1
  /\ prevClusters = <<>>
  /\ prevThreshold = 0
  /\ EnvIdle /\ EmbedIdle /\ KwIdle /\ SentIdle /\ MoodIdle /\ PipeIdle /\ MoreIdle

\* articles = list(map(_norm, articles))
MapNorm ==
  /\ npc = "map"
  /\ IF \E p \in DOMAIN raw : Raises(raw[p])
     THEN /\ npc' = "raised"
          /\ UNCHANGED articles
     ELSE /\ articles' = [p \in DOMAIN raw |-> _norm(raw[p])]
          /\ npc' = "filter"
  /\ UNCHANGED <<raw, end_date, days_back, df>>
  /\ UNCHANGED <<clusterVars, restVars>>

\* the date filter loop
DateFilter ==
  /\ npc = "filter"
  /\ articles' = SelectSeq(articles, InWindow)
  /\ npc' = "check"
  /\ UNCHANGED <<raw, end_date, days_back, df>>
  /\ UNCHANGED <<clusterVars, restVars>>

\* if not articles: st.stop(); otherwise build df without duplicate titles
DedupWithoutStop ==
  /\ npc = "check"
  /\ df' = drop_duplicates(articles)
  /\ npc' = "normalized"
  /\ UNCHANGED <<raw, end_date, days_back, articles>>
  /\ UNCHANGED <<clusterVars, restVars>>

StopOrDedup ==
  /\ npc = "check"
  /\ IF articles = <<>>
     THEN /\ npc' = "stopped"
          /\ UNCHANGED df
     ELSE /\ df' = drop_duplicates(articles)
          /\ npc' = "normalized"
  /\ UNCHANGED <<raw, end_date, days_back, articles>>
  /\ UNCHANGED <<clusterVars, restVars>>

NextNorm == MapNorm \/ DateFilter \/ StopOrDedup

SpecNorm == InitNorm /\ [][NextNorm]_vars

\* --------------------------------------------- properties of SpecNorm

\* the title of raw record p after trimming
Trimmed(p) == strip(GetTitle(raw[p]))

\* raw records that are still in `articles` after the date filter
Kept == {articles[k].url : k \in DOMAIN articles}

SameTitle(p) == {q \in DOMAIN raw : Trimmed(q) = Trimmed(p)}

Rows(p) == {k \in DOMAIN df : df[k].title = Trimmed(p)}

First(S) == CHOOSE x \in S : \A y \in S : x <= y

\* C7 as claimed: when two raw records have the same trimmed title, exactly
\* one article with that title is left and it is the first of them in raw
\* input order.
C7_FirstRawSurvives ==
  npc = "normalized" =>
    \A p, q \in DOMAIN raw :
      (p < q /\ Trimmed(p) = Trimmed(q)) =>
        /\ Cardinality(Rows(p)) = 1
        /\ \A k \in Rows(p) : df[k].url = First(SameTitle(p))

\* C7 amended: of the raw records with one trimmed title, at most one article
\* is left: the first, in raw input order, of those that passed the date
\* filter, and none when none of them passed.
C7_FirstKeptSurvives ==
  npc = "normalized" =>
    \A p \in DOMAIN raw :
      IF SameTitle(p) \cap Kept = {}
      THEN Rows(p) = {}
      ELSE /\ Cardinality(Rows(p)) = 1
           /\ \A k \in Rows(p) : df[k].url = First(SameTitle(p) \cap Kept)

C7_Witness ==
  /\ npc = "normalized"
  /\ \E p, q \in DOMAIN raw :
       /\ p < q
       /\ raw[p].title # raw[q].title
       /\ Trimmed(p) = Trimmed(q)
       /\ {p, q} \subseteq Kept
       /\ Cardinality(Rows(p)) = 1
       /\ \A k \in Rows(p) : df[k].url = p

\* C8: no article with an empty title is in the table passed to embedding,
\* clustering and classification.
C8_NoEmptyTitle ==
  npc = "normalized" => \A k \in DOMAIN df : df[k].title # <<>>

\* C9: normalisation never raises, whatever the raw records hold.
C9_NeverRaises == npc # "raised"

\* C10: after the date filter an article is kept if and only if it has no
\* datetime or its calendar day lies in end_day - days_back .. end_day.
C10_DateWindow ==
  npc \in {"check", "stopped", "normalized"} =>
    \A p \in DOMAIN raw :
      p \in Kept <=>
        \/ raw[p].date.kind # "datetime"
        \/ /\ end_date.day - days_back <= raw[p].date.day
           /\ raw[p].date.day <= end_date.day

C10_Witness ==
  /\ npc = "check"
  /\ \E p, q \in DOMAIN raw :
       /\ p \in Kept
       /\ raw[p].date.kind = "datetime"
       /\ raw[p].date.day = end_date.day - days_back
       /\ raw[p].date.tod < end_date.tod
       /\ q \notin Kept

\* ------------------------------------------------- properties of Spec

Indices == 0..(n - 1)

ClusterSet(cs, c) == SeqToSet(cs[c])

Members == UNION {ClusterSet(clusters, c) : c \in DOMAIN clusters}

\* the threshold graph: an edge joins a and b when their similarity reaches
\* the threshold
Adj(a) == {b \in Indices : b # a /\ (sims(a, b) >= threshold \/ sims(b, a) >= threshold)}

RECURSIVE Grow(_)
Grow(S) ==
  LET T == S \cup UNION {Adj(a) : a \in S}
  IN IF T = S THEN S ELSE Grow(T)

Component(x) == Grow({x})

NonSingleton(cs) == Cardinality({c \in DOMAIN cs : Len(cs[c]) >= 2})

\* C1: when the function returns, every index 0..n-1 is a member of some
\* returned cluster (no article is dropped).
C1_Coverage == pc = "done" => Members = Indices

\* C2: in the returned list no index is in two clusters and no index occurs
\* twice inside one cluster.
C2_Disjoint ==
  pc = "done" =>
    /\ \A c, d \in DOMAIN clusters :
         c # d => ClusterSet(clusters, c) \cap ClusterSet(clusters, d) = {}
    /\ \A c \in DOMAIN clusters :
         Cardinality(ClusterSet(clusters, c)) = Len(clusters[c])

C2_Witness ==
  /\ pc = "done"
  /\ Len(clusters) >= 2
  /\ \E c \in DOMAIN clusters : Len(clusters[c]) >= 2

\* C3 as claimed: for the same embeddings and min_size, the call at the
\* higher threshold returns no more clusters of two or more members than the
\* call at the lower threshold.
C3_FewerNonSingletons ==
  (pc = "done" /\ calls >= 2 /\ prevThreshold < threshold) =>
    NonSingleton(clusters) <= NonSingleton(prevClusters)

\* C3 amended: for the same embeddings and min_size, every cluster of two or
\* more members returned at the higher threshold lies inside one cluster
\* returned at the lower threshold (raising the threshold splits clusters,
\* it never merges indices that were apart).
C3_Refines ==
  (pc = "done" /\ calls >= 2 /\ prevThreshold < threshold) =>
    \A c \in DOMAIN clusters :
      Len(clusters[c]) >= 2 =>
        \E d \in DOMAIN prevClusters :
          ClusterSet(clusters, c) \subseteq ClusterSet(prevClusters, d)

C3_Witness ==
  /\ pc = "done"
  /\ calls >= 2
  /\ prevThreshold < threshold
  /\ NonSingleton(clusters) > NonSingleton(prevClusters)

\* C4: when the while loop of a seed i has ended, the group is exactly the
\* connected component of i in the threshold graph.
C4_Closure ==
  (pc = "while" /\ ~added) => SeqToSet(group) = Component(i)

C4_Witness ==
  /\ pc = "while"
  /\ ~added
  /\ \E a, b, c \in SeqToSet(group) :
       /\ sims(a, b) >= threshold
       /\ sims(b, c) >= threshold
       /\ sims(a, c) < threshold

\* C5: every returned cluster has at least min_size members, unless the
\* singleton fallback ran: then the result is the n singletons and no index
\* belongs to a group of min_size or more.
C5_MinSize ==
  pc = "done" =>
    \/ \A c \in DOMAIN clusters : Len(clusters[c]) >= min_size
    \/ /\ clusters = Singletons
       /\ \A x \in Indices : Cardinality(Component(x)) < min_size

C5_Witness ==
  /\ pc = "done"
  /\ min_size >= 2
  /\ n >= 2
  /\ clusters = Singletons

\* C6: n = 0 returns the empty list and n = 1 returns [[0]], whatever
\* min_size and threshold are.
C6_EdgeCases ==
  pc = "done" =>
    /\ n = 0 => clusters = <<>>
    /\ n = 1 => clusters = << <<0>> >>

C6_Witness ==
  /\ pc = "done"
  /\ n = 1
  /\ min_size >= 2
  /\ clusters = << <<0>> >>

\* ----------------------------------- embed_titles (fallback and model)
\* Two copies of the program (two processes) embed the same titles.  hash()
\* of a str is salted per process (PYTHONHASHSEED is random unless set), so
\* each process has its own table of hash values.
Procs == {1, 2}

EmbedTitles == {<<"a">>, <<"b">>}

HashValues == {-7, 7, 104}

Abs(x) == IF x < 0 THEN -x ELSE x

\* the components of vec before the division by its norm, as numerators over
\* the fixed denominators 97, 193, 389, 997
FallbackVec(h) == <<h % 97, h % 193, h % 389, h % 997>>

\* h = abs(hash(t)) % (10**6) and the vector built from it, in process p
HashEmbed(p, t) == FallbackVec(Abs(hashfn[p][t]) % 1000000)

\* the vectors of the external embedder: one per title, fixed by the text
ModelVec(t) == IF t = <<"a">> THEN <<5, 0>> ELSE <<0, 5>>

NotRun == [kind |-> "none", vecs |-> <<>>]

Raised == [kind |-> "raised", vecs |-> <<>>]

InitEmbed ==
  /\ etitles \in SeqsUpTo(EmbedTitles, MaxTitles)
  /\ hashfn \in [Procs -> [EmbedTitles -> HashValues]]
  /\ embout = [p \in Procs |-> NotRun]
  /\ enable_models \in BOOLEAN
  /\ has_tx \in BOOLEAN
  /\ has_st = FALSE
  /\ ClusterIdle /\ NormIdle
  /\ KwIdle /\ SentIdle /\ MoodIdle /\ PipeIdle /\ MoreIdle

\* lines 29-35: the hash path; np.vstack of an empty list raises ValueError
EmbedFallback(p) ==
  /\ embout[p] = NotRun
  /\ ~enable_models \/ ~has_tx
  /\ embout' = [embout EXCEPT ![p] =
       IF etitles = <<>> THEN Raised
       ELSE [kind |-> "fallback",
             vecs |-> [k \in DOMAIN etitles |-> HashEmbed(p, etitles[k])]]]
  /\ UNCHANGED <<etitles, hashfn, envVars>>
  /\ UNCHANGED <<clusterVars, normVars, kwVars, sentVars, moodVars, pipeVars, moreVars>>

\* lines 36-44: the model path; loading or encoding may raise, and nothing
\* in embed_titles catches it
EmbedModel(p) ==
  /\ embout[p] = NotRun
  /\ enable_models /\ has_tx
  /\ \E ok \in BOOLEAN :
       embout' = [embout EXCEPT ![p] =
         IF ok THEN [kind |-> "model",
                     vecs |-> [k \in DOMAIN etitles |-> ModelVec(etitles[k])]]
         ELSE Raised]
  /\ UNCHANGED <<etitles, hashfn, envVars>>
  /\ UNCHANGED <<clusterVars, normVars, kwVars, sentVars, moodVars, pipeVars, moreVars>>

NextEmbed == \E p \in Procs : EmbedFallback(p) \/ EmbedModel(p)

SpecEmbed == InitEmbed /\ [][NextEmbed]_vars

\* C11: two processes that took the fallback path for the same titles hold
\* identical vectors.
C11_SameAcrossProcesses ==
  (embout[1].kind = "fallback" /\ embout[2].kind = "fallback") =>
    embout[1].vecs = embout[2].vecs

\* C12: with models enabled and the embedder importable, a call that has
\* returned holds one vector per title and no exception reached the caller,
\* also when the embedder failed.
C12_FailureAbsorbed ==
  \A p \in Procs :
    (enable_models /\ has_tx /\ embout[p] # NotRun) =>
      /\ embout[p].kind \in {"model", "fallback"}
      /\ Len(embout[p].vecs) = Len(etitles)

\* ------------------------------------------ keyword impact classifier
\* A headline is a sequence of symbols: words and " ".  `k in T` is a
\* substring test on the lower-cased headline; KeywordsIn lists, for every
\* word of the headline pool, the keywords that are substrings of it.
BULL == {"surge", "rally", "jump", "soar", "spike", "upward", "tighten",
         "deficit", "outage", "sanction", "strike"}

BEAR == {"plunge", "drop", "decline", "fall", "bearish", "glut", "oversupply",
         "slowdown", "recession", "ceasefire"}

GEO == "Geopolitical risk / premium"
SUPPLY == "Physical supply change"
DEMAND == "Macro-demand channel"
INVENTORY == "Inventory signal (build/draw)"

\* mech_counts of _keyword_mechanism_and_score, in dict order
CatsLean == <<GEO, SUPPLY, DEMAND, INVENTORY>>

KwLean(cat) ==
  CASE cat = GEO -> {"war", "tension", "attack", "ceasefire", "sanction", "missile", "strike"}
    [] cat = SUPPLY -> {"output", "production", "supply", "pipeline", "refinery", "outage"}
    [] cat = DEMAND -> {"demand", "slowdown", "recession", "pmi", "china", "consumption"}
    [] cat = INVENTORY -> {"inventory", "stock", "build", "draw", "spr", "storage"}

\* the four `if any(...)` of _keyword_impact_score, in the order of the code
CatsPro == <<GEO, INVENTORY, SUPPLY, DEMAND>>

KwPro(cat) ==
  CASE cat = GEO -> {"war", "attack", "missile", "tension", "sanction", "ceasefire", "strike"}
    [] cat = INVENTORY -> {"inventory", "stock", "build", "draw", "spr", "storage"}
    [] cat = SUPPLY -> {"output", "production", "supply", "pipeline", "refinery"}
    [] cat = DEMAND -> {"demand", "recession", "slowdown", "pmi", "china", "interest rate", "fed"}

\* str.lower() on a word
lower(w) == IF w = "Strike" THEN "strike" ELSE w

KeywordsIn(w) ==
  CASE w = "upward" -> {"upward", "war"}
    [] w = "oversupply" -> {"oversupply", "supply"}
    [] w = "federal" -> {"fed"}
    [] w \in {"opec", "cuts", "a", "b", " "} -> {}
    [] OTHER -> {w}

\* k in T
Contains(T, k) == \E x \in DOMAIN T : k \in KeywordsIn(lower(T[x]))

\* sum(w in T for w in W)
Hits(T, W) == Cardinality({w \in W : Contains(T, w)})

\* bull += ... over all titles
RECURSIVE SumHits(_, _)
SumHits(ts, W) ==
  IF ts = <<>> THEN 0 ELSE Hits(Head(ts), W) + SumHits(Tail(ts), W)

\* any(k in T for k in [...])
AnyKw(T, K) == \E k \in K : Contains(T, k)

\* mech_counts[cat] after the loop
MechCount(ts, K) == Cardinality({x \in DOMAIN ts : AnyKw(ts[x], K)})

ImpactOfGE(bull, bear) ==
  IF bull > bear
  THEN [impact |-> "Bullish", intensity |-> IF bull - bear >= 3 THEN "Strong" ELSE "Moderate"]
  ELSE IF bear > bull
  THEN [impact |-> "Bearish", intensity |-> IF bear - bull >= 3 THEN "Strong" ELSE "Moderate"]
  ELSE [impact |-> "Mixed", intensity |-> "Moderate"]
\* lines 96-101 (the same code in nlp_utils.py lines 91-96)
ImpactOf(bull, bear) ==
  IF bull > bear
  THEN [impact |-> "Bullish", intensity |-> IF bull - bear > 3 THEN "Strong" ELSE "Moderate"]
  ELSE IF bear > bull
  THEN [impact |-> "Bearish", intensity |-> IF bear - bull > 3 THEN "Strong" ELSE "Moderate"]
  ELSE [impact |-> "Mixed", intensity |-> "Moderate"]

\* the first key, in iteration order, that holds the largest count:
\* max(d, key=d.get) and Counter.most_common(1)
RECURSIVE FirstMax(_, _, _)
FirstMax(keys, cnt, best) ==
  IF keys = <<>> THEN best
  ELSE IF cnt[Head(keys)] > cnt[best]
       THEN FirstMax(Tail(keys), cnt, Head(keys))
       ELSE FirstMax(Tail(keys), cnt, best)

\* line 102
MechanismLean(ts) ==
  LET cnt == [c \in SeqToSet(CatsLean) |-> MechCount(ts, KwLean(c))]
  IN IF \E c \in SeqToSet(CatsLean) : cnt[c] > 0
     THEN FirstMax(Tail(CatsLean), cnt, Head(CatsLean))
     ELSE "No clear mechanism"

\* the keys of the Counter in insertion order: a key is inserted by the
\* first `mech[...] += 1` that names it
RECURSIVE CounterKeys(_, _, _, _)
CounterKeys(ts, x, c, keys) ==
  IF x > Len(ts) THEN keys
  ELSE IF c > Len(CatsPro) THEN CounterKeys(ts, x + 1, 1, keys)
  ELSE IF AnyKw(ts[x], KwPro(CatsPro[c])) /\ CatsPro[c] \notin SeqToSet(keys)
       THEN CounterKeys(ts, x, c + 1, Append(keys, CatsPro[c]))
       ELSE CounterKeys(ts, x, c + 1, keys)

\* nlp_utils.py line 97
MechanismPro(ts) ==
  LET keys == CounterKeys(ts, 1, 1, <<>>)
      cnt == [c \in SeqToSet(CatsPro) |-> MechCount(ts, KwPro(c))]
  IN IF keys # <<>>
     THEN FirstMax(Tail(keys), cnt, Head(keys))
     ELSE "No clear mechanism"

Headlines ==
  {<<"surge", " ", "rally">>, <<"Strike">>, <<"plunge", " ", "glut">>,
   <<"oversupply">>, <<"stock", " ", "supply">>, <<"demand">>, <<"opec">>,
   <<"upward">>}

NoResult == [fn |-> "none", mechanism |-> "", impact |-> "", intensity |-> ""]

InitKw ==
  /\ texts \in SeqsUpTo(Headlines, MaxTitles)
  /\ kres = NoResult
  /\ ClusterIdle /\ NormIdle
  /\ EnvIdle /\ EmbedIdle /\ SentIdle /\ MoodIdle /\ PipeIdle /\ MoreIdle

\* _keyword_mechanism_and_score(titles), nlp_utils_no_sklearn.py
KeywordMechanismAndScore ==
  /\ kres = NoResult
  /\ LET r == ImpactOf(SumHits(texts, BULL), SumHits(texts, BEAR))
     IN kres' = [fn |-> "_keyword_mechanism_and_score",
                 mechanism |-> MechanismLean(texts),
                 impact |-> r.impact,
                 intensity |-> r.intensity]
  /\ UNCHANGED texts
  /\ UNCHANGED <<clusterVars, normVars, envVars, embedVars, sentVars, moodVars, pipeVars, moreVars>>

\* _keyword_impact_score(texts), nlp_utils.py
KeywordImpactScore ==
  /\ kres = NoResult
  /\ LET r == ImpactOf(SumHits(texts, BULL), SumHits(texts, BEAR))
     IN kres' = [fn |-> "_keyword_impact_score",
                 mechanism |-> MechanismPro(texts),
                 impact |-> r.impact,
                 intensity |-> r.intensity]
  /\ UNCHANGED texts
  /\ UNCHANGED <<clusterVars, normVars, envVars, embedVars, sentVars, moodVars, pipeVars, moreVars>>

NextKw == KeywordMechanismAndScore \/ KeywordImpactScore

SpecKw == InitKw /\ [][NextKw]_vars

\* keyword totals over all headlines, counted as (headline, keyword) pairs
Total(W) == Cardinality({hw \in (DOMAIN texts) \X W : Contains(texts[hw[1]], hw[2])})

KwOf(cat) ==
  IF kres.fn = "_keyword_impact_score" THEN KwPro(cat) ELSE KwLean(cat)

\* number of headlines that hit the category, with the keyword list of the
\* function that produced kres
CatHits(cat) == MechCount(texts, KwOf(cat))

\* C13: Bullish when bull > bear, Bearish when bear > bull, Mixed when equal
\* and not both zero; Strong exactly when |bull - bear| > 3, else Moderate.
C13_ImpactRule ==
  kres # NoResult =>
    LET bull == Total(BULL)
        bear == Total(BEAR)
    IN /\ bull > bear => kres.impact = "Bullish"
       /\ bear > bull => kres.impact = "Bearish"
       /\ (bull = bear /\ bull > 0) => kres.impact = "Mixed"
       /\ kres.intensity = "Strong" <=> Abs(bull - bear) > 3
       /\ kres.intensity # "Strong" => kres.intensity = "Moderate"

C13_Witness ==
  /\ kres # NoResult
  /\ Total(BULL) - Total(BEAR) = 3
  /\ kres.impact = "Bullish"
  /\ kres.intensity = "Moderate"

ZeroSignal ==
  /\ texts # <<>>
  /\ Total(BULL) = 0
  /\ Total(BEAR) = 0
  /\ \A c \in SeqToSet(CatsLean) : CatHits(c) = 0

\* C14: a cluster without any bullish, bearish or mechanism keyword is
\* classified "No clear mechanism", Neutral, Neutral.
C14_ZeroSignalNeutral ==
  (kres # NoResult /\ ZeroSignal) =>
    /\ kres.mechanism = "No clear mechanism"
    /\ kres.impact = "Neutral"
    /\ kres.intensity = "Neutral"

\* C15: the mechanism is the category with the most headline hits, and among
\* categories that share the highest count the earliest of geopolitical,
\* supply, demand, inventory; in both functions.
C15_MechanismPriority ==
  (kres # NoResult /\ \E c \in SeqToSet(CatsLean) : CatHits(c) > 0) =>
    \E p \in DOMAIN CatsLean :
      /\ kres.mechanism = CatsLean[p]
      /\ \A q \in DOMAIN CatsLean : CatHits(CatsLean[q]) <= CatHits(CatsLean[p])
      /\ \A q \in 1..(p - 1) : CatHits(CatsLean[q]) < CatHits(CatsLean[p])

\* ------------------------------------------------- _llm_sentiment
\* Scores are in hundredths, so 0.15 is 15.  An item of the classifier's
\* output is a dict that may lack the "label" or the "score" key.
Labels == {"POSITIVE", "Negative", "LABEL_1"}

Scores == {15, 16, 100}

OutItems ==
  {[label |-> l, score |-> v] : l \in Labels, v \in Scores} \cup
  {[label |-> l] : l \in Labels} \cup {[score |-> 100]}

\* o["label"].lower()
lowerLabel(l) ==
  CASE l = "POSITIVE" -> "positive"
    [] l = "Negative" -> "negative"
    [] OTHER -> "label_1"

\* o.get("score", 0)
GetScore(o) == IF "score" \in DOMAIN o THEN o.score ELSE 0

\* the loop over outs: score += val / score -= val
RECURSIVE SignedSum(_)
SignedSum(outs) ==
  IF outs = <<>> THEN 0
  ELSE LET o == Head(outs)
           lbl == lowerLabel(o.label)
       IN (IF lbl = "positive" THEN GetScore(o)
           ELSE IF lbl = "negative" THEN 0 - GetScore(o)
           ELSE 0) + SignedSum(Tail(outs))

Max(a, b) == IF a >= b THEN a ELSE b

\* avg = score / max(1, len(outs)), compared with 0.15 and -0.15
SentimentOfGE(score, len) ==
  IF score >= 15 * Max(1, len) THEN "Positive"
  ELSE IF score <= (0 - 15) * Max(1, len) THEN "Negative"
  ELSE "Neutral"
SentimentOf(score, len) ==
  IF score > 15 * Max(1, len) THEN "Positive"
  ELSE IF score < (0 - 15) * Max(1, len) THEN "Negative"
  ELSE "Neutral"

\* the body of the try block raises: the pipeline call fails, or an item
\* has no "label" key
TryRaises(c) ==
  c.throws \/ \E x \in DOMAIN c.outs : "label" \notin DOMAIN c.outs[x]

llm_sentiment(c, enable, has) ==
  IF enable /\ has /\ ~TryRaises(c)
  THEN SentimentOf(SignedSum(c.outs), Len(c.outs))
  ELSE "Neutral"

InitSent ==
  /\ \E t \in BOOLEAN, o \in SeqsUpTo(OutItems, MaxTitles) :
       clf = [throws |-> t, outs |-> o]
  /\ sent = ""
  /\ enable_models \in BOOLEAN
  /\ has_tx \in BOOLEAN
  /\ has_st = FALSE
  /\ ClusterIdle /\ NormIdle
  /\ EmbedIdle /\ KwIdle /\ MoodIdle /\ PipeIdle /\ MoreIdle

\* _llm_sentiment(titles, enable_models) / analyze_sentiment_llm
LlmSentiment ==
  /\ sent = ""
  /\ sent' = llm_sentiment(clf, enable_models, has_tx)
  /\ UNCHANGED <<clf, envVars>>
  /\ UNCHANGED <<clusterVars, normVars, embedVars, kwVars, moodVars, pipeVars, moreVars>>

NextSent == LlmSentiment

SpecSent == InitSent /\ [][NextSent]_vars

\* the classifier was called and its output was read without an exception
Classified ==
  /\ enable_models /\ has_tx /\ ~clf.throws
  /\ \A x \in DOMAIN clf.outs : "label" \in DOMAIN clf.outs[x]

RECURSIVE SumScores(_, _)
SumScores(outs, lbl) ==
  IF outs = <<>> THEN 0
  ELSE (IF lowerLabel(Head(outs).label) = lbl THEN GetScore(Head(outs)) ELSE 0)
       + SumScores(Tail(outs), lbl)

\* 100 * avg, as a pair (numerator, number of items)
Signed == SumScores(clf.outs, "positive") - SumScores(clf.outs, "negative")

\* C16: Positive iff avg > 0.15, Negative iff avg < -0.15, Neutral
\* otherwise; Neutral when models are disabled, the capability is absent or
\* it throws; the call always returns one of the three labels.
C16_SentimentRule ==
  sent # "" =>
    /\ sent \in {"Positive", "Negative", "Neutral"}
    /\ ~Classified => sent = "Neutral"
    /\ Classified =>
         /\ sent = "Positive" <=> (clf.outs # <<>> /\ Signed > 15 * Len(clf.outs))
         /\ sent = "Negative" <=> (clf.outs # <<>> /\ Signed < (0 - 15) * Len(clf.outs))

C16_Witness ==
  /\ sent = "Neutral"
  /\ Classified
  /\ clf.outs # <<>>
  /\ Signed = 15 * Len(clf.outs)

\* ------------------------------------------------------ headline mood
\* counts holds the number of rows of cluster_df per Impact label.
\* Percentages are kept in hundredths of a percent (3.12 is 312).

\* round(100 * k / total, 2): the counts are numpy integers (DataFrame sum),
\* so the quotient is a numpy float64, whose round() scales by 100, rounds to
\* the nearest integer with ties to even, and divides by 100.  A tie at the
\* third decimal therefore goes to the even neighbour.
Round2HalfUp(k, total) ==
  LET q == (10000 * k) \div total
      r == (10000 * k) % total
  IN IF 2 * r >= total THEN q + 1 ELSE q
Round2(k, total) ==
  LET q == (10000 * k) \div total
      r == (10000 * k) % total
  IN IF 2 * r > total THEN q + 1
     ELSE IF 2 * r < total THEN q
     ELSE IF q % 2 = 0 THEN q ELSE q + 1

InitMood ==
  /\ \E b \in 0..MaxClusters :
       \E r \in 0..(MaxClusters - b) :
         \E m \in 0..(MaxClusters - b - r) :
           \E z \in 0..(MaxClusters - b - r - m) :
             counts = [bull |-> b, bear |-> r, mix |-> m, neu |-> z]
  /\ mood = <<>>
  /\ ClusterIdle /\ NormIdle
  /\ EnvIdle /\ EmbedIdle /\ KwIdle /\ SentIdle /\ PipeIdle /\ MoreIdle

\* total = max(1, bull+bear+mix+neu); bull_pct, bear_pct
Mood ==
  /\ mood = <<>>
  /\ LET total == Max(1, counts.bull + counts.bear + counts.mix + counts.neu)
     IN mood' = [total |-> total,
                 bull_pct |-> Round2(counts.bull, total),
                 bear_pct |-> Round2(counts.bear, total),
                 mixed |-> counts.mix,
                 neutral |-> counts.neu]
  /\ UNCHANGED counts
  /\ UNCHANGED <<clusterVars, normVars, envVars, embedVars, kwVars, sentVars, pipeVars, moreVars>>

NextMood == Mood

SpecMood == InitMood /\ [][NextMood]_vars

\* C17: both percentages lie in [0, 100] and their sum is at most 100,
\* after rounding to two decimals; the total is at least 1.
C17_MoodBounds ==
  mood # <<>> =>
    /\ mood.total >= 1
    /\ 0 <= mood.bull_pct /\ mood.bull_pct <= 10000
    /\ 0 <= mood.bear_pct /\ mood.bear_pct <= 10000
    /\ mood.bull_pct + mood.bear_pct <= 10000

C17_Witness ==
  /\ mood # <<>>
  /\ counts.bull = 1
  /\ counts.bear = 31
  /\ mood.bull_pct = 312
  /\ mood.bear_pct = 9688

\* ------------------------------------------------------------ theme_tally
\* theme_tally(titles) of nlp_utils_no_sklearn.py and of nlp_utils.py (the
\* two bodies are the same).

Themes == <<"geopolitical", "supply", "demand", "monetary">>

ThemeKw(th) ==
  CASE th = "geopolitical" -> {"war", "tension", "attack", "ceasefire", "sanction", "geopolit"}
    [] th = "supply" -> {"output", "production", "supply", "pipeline", "refinery", "outage", "capacity"}
    [] th = "demand" -> {"demand", "slowdown", "recession", "china", "pmi", "consumption"}
    [] th = "monetary" -> {"fed", "rate", "central bank", "inflation", "monetary"}

\* counts = {"geopolitical":0,"supply":0,"demand":0,"monetary":0}
ZeroCounts == [th \in SeqToSet(Themes) |-> 0]

\* the body of `for t in titles` with `elif` in place of the four `if`
BumpFirst(T, c) ==
  LET hit == {x \in DOMAIN Themes : AnyKw(T, ThemeKw(Themes[x]))}
  IN [th \in DOMAIN c |->
        IF hit # {} /\ th = Themes[CHOOSE x \in hit : \A y \in hit : x <= y]
        THEN c[th] + 1 ELSE c[th]]

\* the body of `for t in titles`: four independent `if any(...)`
Bump(T, c) ==
  [th \in DOMAIN c |-> IF AnyKw(T, ThemeKw(th)) THEN c[th] + 1 ELSE c[th]]

RECURSIVE TallyLoop(_, _)
TallyLoop(ts, c) ==
  IF ts = <<>> THEN c ELSE TallyLoop(Tail(ts), Bump(Head(ts), c))

theme_tally(ts) == TallyLoop(ts, ZeroCounts)

ThemeHeadlines ==
  {<<"war">>, <<"war", " ", "supply">>, <<"upward", " ", "demand">>,
   <<"federal", " ", "inflation">>, <<"opec", " ", "cuts">>,
   <<"oversupply", " ", "recession", " ", "fed", " ", "attack">>,
   <<"Strike">>, <<>>}

InitTheme ==
  /\ \E k \in 0..MaxTitles : texts \in [1..k -> ThemeHeadlines]
  /\ kres = <<>>
  /\ theme = <<>>
  /\ HybIdle /\ ReqIdle
  /\ ClusterIdle /\ NormIdle
  /\ EnvIdle /\ EmbedIdle /\ SentIdle /\ MoodIdle /\ PipeIdle

ThemeTally ==
  /\ theme = <<>>
  /\ theme' = theme_tally(texts)
  /\ UNCHANGED <<hybVars, reqVars>>
  /\ UNCHANGED <<clusterVars, normVars, envVars, embedVars, kwVars, sentVars, moodVars, pipeVars>>

NextTheme == ThemeTally

SpecTheme == InitTheme /\ [][NextTheme]_vars

\* the headlines that contain at least one keyword of the theme
Matching(th) == {x \in DOMAIN texts : \E k \in ThemeKw(th) : Contains(texts[x], k)}

\* C24: the tally has exactly the keys geopolitical, supply, demand and
\* monetary; each count is the number of headlines that contain at least one
\* keyword of that theme (a headline of several themes counts once in each)
\* and lies between 0 and the number of headlines.
C24_ThemeTally ==
  theme # <<>> =>
    /\ DOMAIN theme = {"geopolitical", "supply", "demand", "monetary"}
    /\ \A th \in DOMAIN theme :
         /\ theme[th] = Cardinality(Matching(th))
         /\ theme[th] >= 0
         /\ theme[th] <= Len(texts)

\* a headline of four themes together with one of no theme has been tallied
C24_Witness ==
  /\ theme # <<>>
  /\ \E x, y \in DOMAIN texts :
       /\ \A th \in DOMAIN theme : x \in Matching(th)
       /\ \A th \in DOMAIN theme : y \notin Matching(th)

\* ------------------------------------------------ the pipeline script
\* app_pro_lean.py ("lean", with nlp_utils_no_sklearn) and app_pro.py
\* ("pro", with nlp_utils), from the fetched list to the mood figures.
\* `called` collects the external capabilities that were invoked.

PipeVectors == {<<5, 0>>, <<0, 5>>}

PipeTitles ==
  {[kind |-> "missing", val |-> <<>>]} \cup
  {[kind |-> "str", val |-> v] :
     v \in {<<"a">>, <<"opec", " ", "cuts">>, <<"cuts", " ", "opec">>}}

PipeDates ==
  {[kind |-> "missing", day |-> 0, tod |-> 0],
   [kind |-> "datetime", day |-> 0, tod |-> 1]}

\* df["title"].tolist()
TitleList == [k \in DOMAIN df |-> df[k].title]

\* [df.loc[j, "title"] for j in idxs]
TitlesOf(idxs) == [k \in DOMAIN idxs |-> df[idxs[k] + 1].title]

\* " ".join(titles)
RECURSIVE Join(_)
Join(ts) ==
  IF ts = <<>> THEN <<>>
  ELSE IF Len(ts) = 1 THEN ts[1]
  ELSE ts[1] \o <<" ">> \o Join(Tail(ts))

\* text[:k]
Prefix(text, k) == SubSeq(text, 1, IF k < Len(text) THEN k ELSE Len(text))

\* the text returned by the external summarizer
ModelSummary == <<"summary">>

\* summarize_text(text, enable_models); ok: the summarizer call succeeds
summarize_text(text, enable, has, ok) ==
  IF enable /\ has /\ ok THEN ModelSummary
  ELSE IF Len(text) > 220 THEN Prefix(text, 220) \o <<"...">> ELSE text

\* summarize_cluster(titles, enable_models), nlp_utils.py
summarize_cluster(ts, enable, has, ok) ==
  IF enable /\ has /\ ok THEN ModelSummary
  ELSE IF ts # <<>> THEN ts[1] ELSE <<"No content">>

\* re.findall(r"[a-zA-Z]{4,}", t.lower()): the words of four letters or more
RECURSIVE LongWords(_)
LongWords(t) ==
  IF t = <<>> THEN <<>>
  ELSE IF lower(Head(t)) \in {"a", "b", " ", "war"}
       THEN LongWords(Tail(t))
       ELSE <<lower(Head(t))>> \o LongWords(Tail(t))

\* " ".join(sorted(toks[:2])) if toks else f"solo-{i}": the key is fixed by
\* the multiset of the first two words
GroupKey(t, idx) ==
  LET toks == Prefix(LongWords(t), 2)
  IN IF toks = <<>> THEN <<"solo", idx>>
     ELSE <<"key", {<<w, Cardinality({x \in DOMAIN toks : toks[x] = w})>> :
                      w \in SeqToSet(toks)}>>

\* groups.setdefault(key, []).append(i), groups in insertion order
RECURSIVE KeyGroups(_, _, _)
KeyGroups(ts, x, groups) ==
  IF x > Len(ts) THEN groups
  ELSE LET key == GroupKey(ts[x], x - 1)
           at == {g \in DOMAIN groups : groups[g].key = key}
       IN IF at = {}
          THEN KeyGroups(ts, x + 1, Append(groups, [key |-> key, idxs |-> <<x - 1>>]))
          ELSE KeyGroups(ts, x + 1,
                 [g \in DOMAIN groups |->
                    IF g \in at
                    THEN [key |-> key, idxs |-> Append(groups[g].idxs, x - 1)]
                    ELSE groups[g]])

Keep(g) == Len(g.idxs) >= min_size

\* [[i] for i in range(len(titles))]
SingletonsOf(m) == [x \in 1..m |-> <<x - 1>>]

\* lines 51-56 of nlp_utils.py: the word-key grouping
WordKeyClusters(ts) ==
  LET kept == SelectSeq(KeyGroups(ts, 1, <<>>), Keep)
  IN IF kept # <<>> THEN [g \in DOMAIN kept |-> kept[g].idxs]
     ELSE SingletonsOf(Len(ts))

\* a set of indices as an ascending list
RECURSIVE SetToSeq(_)
SetToSeq(S) ==
  IF S = {} THEN <<>>
  ELSE LET m == CHOOSE x \in S : \A y \in S : x <= y
       IN <<m>> \o SetToSeq(S \ {m})

\* communities, largest first
RECURSIVE BySize(_)
BySize(P) ==
  IF P = {} THEN <<>>
  ELSE LET big == CHOOSE S \in P : \A T \in P : Cardinality(T) <= Cardinality(S)
       IN <<SetToSeq(big)>> \o BySize(P \ {big})

\* what util.community_detection may return for m embeddings: disjoint
\* communities of at least min_community_size indices
CommunityResults(m) ==
  {P \in SUBSET (SUBSET (0..(m - 1))) :
     /\ \A S \in P : Cardinality(S) >= min_size
     /\ \A S, T \in P : S # T => S \cap T = {}}

\* the fields of one row of cluster_rows
KeywordPart(ts) ==
  LET r == ImpactOf(SumHits(ts, BULL), SumHits(ts, BEAR))
  IN [mechanism |-> IF app = "lean" THEN MechanismLean(ts) ELSE MechanismPro(ts),
      impact |-> r.impact,
      intensity |-> r.intensity]

Row(c, sumOk, cl) ==
  LET ts == TitlesOf(clusters[c])
      kw == KeywordPart(ts)
      c2 == [throws |-> cl.throws,
             outs |-> [x \in DOMAIN ts |-> [label |-> cl.label, score |-> 100]]]
  IN [ClusterNo |-> c,
      Articles |-> Len(clusters[c]),
      Summary |-> IF app = "lean"
                  THEN summarize_text(Prefix(Join(ts), 1800), enable_models, has_tx, sumOk)
                  ELSE summarize_cluster(ts, enable_models, has_tx, sumOk),
      Mechanism |-> kw.mechanism,
      Impact |-> kw.impact,
      Intensity |-> kw.intensity,
      Sentiment |-> llm_sentiment(c2, enable_models, has_tx),
      Titles |-> ts]

InitPipe ==
  /\ app \in {"lean", "pro"}
  /\ enable_models \in BOOLEAN
  /\ has_tx \in BOOLEAN
  /\ has_st \in (IF app = "pro" THEN BOOLEAN ELSE {FALSE})
  /\ \E k \in 0..MaxArticles :
       \E t \in [1..k -> PipeTitles], d \in [1..k -> PipeDates] :
         raw = [p \in 1..k |-> [title |-> t[p], date |-> d[p], url |-> p]]
  /\ end_date = [kind |-> "datetime", day |-> 2, tod |-> 1]
  /\ days_back = 1
  /\ articles = <<>>
  /\ df = <<>>
  /\ npc = "map"
  /\ embeddings = <<>>
  /\ threshold = 20
  /\ min_size = 2
  /\ visited = {}
  /\ clusters = <<>>
  /\ group = <<>>
  /\ i = 0
  /\ added = FALSE
  /\ pc = "idle"
  /\ calls = 1
  /\ prevClusters = <<>>
  /\ prevThreshold = 0
  /\ called = {}
  /\ cluster_rows = <<>>
  /\ ppc = "idle"
  /\ EmbedIdle /\ KwIdle /\ SentIdle /\ MoodIdle /\ MoreIdle

\* embed_titles(df["title"].tolist(), enable_models=use_llm) in the lean app,
\* get_embeddings(...) in the pro app.  The vectors are the embedder's or
\* come from hash(); an exception of the embedder is not caught.
EmbedStage ==
  /\ npc = "normalized"
  /\ ppc = "idle"
  /\ LET model == enable_models /\ (IF app = "lean" THEN has_tx ELSE has_st)
     IN \E ok \in (IF model THEN BOOLEAN ELSE {TRUE}) :
          /\ called' = IF model THEN called \cup {"embedder"} ELSE called
          /\ IF ok
             THEN /\ embeddings' \in [DOMAIN df -> PipeVectors]
                  /\ ppc' = "embedded"
                  /\ pc' = IF app = "lean" THEN "for" ELSE pc
             ELSE /\ ppc' = "raised"
                  /\ UNCHANGED <<embeddings, pc>>
  /\ UNCHANGED <<threshold, min_size, visited, clusters, group, i, added,
                 calls, prevClusters, prevThreshold>>
  /\ UNCHANGED <<app, cluster_rows>>
  /\ UNCHANGED <<normVars, envVars, embedVars, kwVars, sentVars, moodVars, moreVars>>

\* cluster_headlines(titles, embeddings, threshold, min_community_size) of
\* nlp_utils.py; the flag use_llm is not an argument
ClusterHeadlines ==
  /\ app = "pro"
  /\ ppc = "embedded"
  /\ pc = "idle"
  /\ IF has_st
     THEN /\ called' = called \cup {"community_detection"}
          /\ \E P \in CommunityResults(Len(df)) :
               clusters' = IF P # {} THEN BySize(P) ELSE SingletonsOf(Len(df))
     ELSE /\ clusters' = WordKeyClusters(TitleList)
          /\ UNCHANGED called
  /\ pc' = "done"
  /\ UNCHANGED <<embeddings, threshold, min_size, visited, group, i, added,
                 calls, prevClusters, prevThreshold>>
  /\ UNCHANGED <<app, cluster_rows, ppc>>
  /\ UNCHANGED <<normVars, envVars, embedVars, kwVars, sentVars, moodVars, moreVars>>

\* the loop that builds cluster_rows: one row per cluster, in the order of
\* `clusters`.  The summarizer and the sentiment classifier are called when
\* use_llm is on and transformers is importable; each may fail.
RowsStage ==
  /\ ppc = "embedded"
  /\ pc = "done"
  /\ LET model == enable_models /\ has_tx /\ clusters # <<>>
     IN /\ called' = IF model THEN called \cup {"summarizer", "sentiment"} ELSE called
        /\ \E sumOk \in (IF model THEN BOOLEAN ELSE {FALSE}) :
             \E cl \in (IF model
                        THEN {[throws |-> TRUE, label |-> "LABEL_1"]} \cup
                             {[throws |-> FALSE, label |-> l] : l \in Labels}
                        ELSE {[throws |-> TRUE, label |-> "LABEL_1"]}) :
               cluster_rows' = [c \in DOMAIN clusters |-> Row(c, sumOk, cl)]
  /\ ppc' = "rows"
  /\ UNCHANGED app
  /\ UNCHANGED <<clusterVars, normVars, envVars, embedVars, kwVars, sentVars, moodVars, moreVars>>

\* theme_counts from the titles of df, then bull, bear, mix, neu, total,
\* bull_pct from cluster_df["Impact"]
MoodStage ==
  /\ ppc = "rows"
  /\ theme' = theme_tally(TitleList)
  /\ LET count(lbl) == Cardinality({c \in DOMAIN cluster_rows : cluster_rows[c].Impact = lbl})
         total == Max(1, count("Bullish") + count("Bearish") + count("Mixed") + count("Neutral"))
     IN /\ counts' = [bull |-> count("Bullish"), bear |-> count("Bearish"),
                      mix |-> count("Mixed"), neu |-> count("Neutral")]
        /\ mood' = [total |-> total,
                    bull_pct |-> Round2(count("Bullish"), total),
                    bear_pct |-> Round2(count("Bearish"), total),
                    mixed |-> count("Mixed"),
                    neutral |-> count("Neutral")]
  /\ ppc' = "digest"
  /\ UNCHANGED <<app, called, cluster_rows>>
  /\ UNCHANGED <<clusterVars, normVars, envVars, embedVars, kwVars, sentVars, hybVars, reqVars>>

NextPipe ==
  \/ MapNorm \/ DateFilter \/ StopOrDedup
  \/ EmbedStage
  \/ Seed \/ Pass \/ Retain \/ Finish
  \/ ClusterHeadlines
  \/ RowsStage
  \/ MoodStage

SpecPipe == InitPipe /\ [][NextPipe]_vars

\* ------------------------------------------------ properties of SpecPipe

\* a stage after normalization has run
StageRan ==
  \/ ppc # "idle"
  \/ pc # "idle"
  \/ embeddings # <<>>
  \/ clusters # <<>>
  \/ called # {}
  \/ cluster_rows # <<>>
  \/ mood # <<>>
  \/ theme # <<>>

\* C19: whenever zero articles survive normalization the script stops with
\* the "no articles" outcome, and in that outcome no embedding, clustering,
\* classification or aggregation has run and there is no digest; the later
\* stages only ever run on at least one article.
C19_EmptyStops ==
  /\ (npc \in {"stopped", "normalized"}) => (npc = "stopped" <=> articles = <<>>)
  /\ npc = "stopped" => ~StageRan
  /\ StageRan => (npc = "normalized" /\ df # <<>>)

\* every fetched article is dated outside the window, and the script stopped
C19_Witness ==
  /\ raw # <<>>
  /\ \A p \in DOMAIN raw : raw[p].date.kind = "datetime"
  /\ npc = "stopped"

\* C20: with use_llm off and at least one surviving article no external
\* model capability is called, no stage raises, and the finished digest has
\* at least one row whose summary, mechanism, impact, intensity and
\* sentiment are all set.
C20_ModelFree ==
  ~enable_models =>
    /\ called = {}
    /\ ppc # "raised"
    /\ ppc = "digest" =>
         /\ cluster_rows # <<>>
         /\ \A c \in DOMAIN cluster_rows :
              /\ cluster_rows[c].Summary # <<>>
              /\ cluster_rows[c].Mechanism # ""
              /\ cluster_rows[c].Impact \in {"Bullish", "Bearish", "Mixed", "Neutral"}
              /\ cluster_rows[c].Intensity # ""
              /\ cluster_rows[c].Sentiment \in {"Positive", "Negative", "Neutral"}

\* ------------------------------------- order of the returned clusters

\* C18: the clusters, which become the rows Cluster 1..k in the order in
\* which they are returned, are in descending order of their number of
\* members.
C18_DescendingSize ==
  pc = "done" =>
    \A c, d \in DOMAIN clusters : c < d => Len(clusters[c]) >= Len(clusters[d])

\* ------------------------------------------- configuration of a call

\* the threshold is outside (0, 1) (25 is 1.0 in the unit of sims) or the
\* minimum size is below 1
InvalidConfig == threshold <= 0 \/ threshold >= 25 \/ min_size < 1

\* C21: a call with an invalid configuration is rejected before any cluster
\* is computed: it never builds a group and never returns a cluster list.
C21_InvalidRejected == InvalidConfig => (pc # "done" /\ group = <<>> /\ clusters = <<>>)

\* ------------------------------------------------ summaries of the rows

\* the cluster's headlines joined by blanks
Concatenation(c) == Join(cluster_rows[c].Titles)

\* the summarization capability is disabled or absent
NoSummarizer == ~enable_models \/ ~has_tx

\* C22: when the summarization capability is disabled, absent or throws,
\* the summary of a cluster whose concatenated headlines are within the
\* character budget is that concatenation, unchanged.
C22_FallbackSummary ==
  \A c \in DOMAIN cluster_rows :
    Len(Concatenation(c)) <= 220 =>
      \/ cluster_rows[c].Summary = Concatenation(c)
      \/ ~NoSummarizer /\ cluster_rows[c].Summary = ModelSummary

\* C23: the summary of every row is a non-empty string.
C23_SummaryNonEmpty ==
  \A c \in DOMAIN cluster_rows : cluster_rows[c].Summary # <<>>

\* ------------------------------------- the hybrid classifiers, called again
\* hybrid_impact_from_keywords_and_llm (nlp_utils_no_sklearn.py) and
\* hybrid_economic_impact (nlp_utils.py), called several times on the same
\* headlines with any flag and any behaviour of the sentiment capability.
\* hres is the list of the tuples returned so far, each with the flag of
\* its call.

MaxHybridCalls == 2

HybridHeadlines ==
  {<<"surge", " ", "rally">>, <<"plunge", " ", "glut">>,
   <<"stock", " ", "supply">>, <<"opec">>}

\* what the classifier does on one call: it throws, or it returns the same
\* item for every title (an item may lack a key)
Classifier(ts) ==
  {[throws |-> TRUE, outs |-> <<>>]} \cup
  {[throws |-> FALSE, outs |-> [x \in DOMAIN ts |-> o]] :
     o \in {[label |-> "POSITIVE", score |-> 100],
            [label |-> "Negative", score |-> 100],
            [label |-> "LABEL_1", score |-> 100],
            [label |-> "POSITIVE"],
            [score |-> 100]}}

\* the classifier is not reached: the flag is off or transformers is absent
NotCalled == [throws |-> TRUE, outs |-> <<>>]

\* a variant in which a decisive sentiment replaces the keyword impact
hybridBlended(fn, ts, c, enable, has) ==
  LET r == ImpactOf(SumHits(ts, BULL), SumHits(ts, BEAR))
      s == llm_sentiment(c, enable, has)
  IN [fn |-> fn,
      enable_models |-> enable,
      mechanism |-> IF fn = "lean" THEN MechanismLean(ts) ELSE MechanismPro(ts),
      impact |-> IF s = "Positive" THEN "Bullish"
                 ELSE IF s = "Negative" THEN "Bearish" ELSE r.impact,
      intensity |-> r.intensity,
      sentiment |-> s]

\* mech, impact, intensity = <keyword function>(titles);
\* sent = <sentiment function>(titles, enable_models=enable_models)
hybrid(fn, ts, c, enable, has) ==
  LET r == ImpactOf(SumHits(ts, BULL), SumHits(ts, BEAR))
  IN [fn |-> fn,
      enable_models |-> enable,
      mechanism |-> IF fn = "lean" THEN MechanismLean(ts) ELSE MechanismPro(ts),
      impact |-> r.impact,
      intensity |-> r.intensity,
      sentiment |-> llm_sentiment(c, enable, has)]

InitHybrid ==
  /\ \E k \in 0..MaxTitles : texts \in [1..k -> HybridHeadlines]
  /\ kres = <<>>
  /\ hres = <<>>
  /\ ThemeIdle /\ ReqIdle
  /\ ClusterIdle /\ NormIdle
  /\ EnvIdle /\ EmbedIdle /\ SentIdle /\ MoodIdle /\ PipeIdle

HybridCall(fn) ==
  /\ Len(hres) < MaxHybridCalls
  /\ \E e \in BOOLEAN, h \in BOOLEAN :
       \E c \in (IF e /\ h THEN Classifier(texts) ELSE {NotCalled}) :
         hres' = Append(hres, hybrid(fn, texts, c, e, h))
  /\ UNCHANGED <<texts, kres>>
  /\ UNCHANGED <<themeVars, reqVars>>
  /\ UNCHANGED <<clusterVars, normVars, envVars, embedVars, sentVars, moodVars, pipeVars>>

HybridImpactFromKeywordsAndLlm == HybridCall("lean")

HybridEconomicImpact == HybridCall("pro")

NextHybrid == HybridImpactFromKeywordsAndLlm \/ HybridEconomicImpact

SpecHybrid == InitHybrid /\ [][NextHybrid]_vars

\* C25: two calls of the same hybrid function on the same headlines return
\* the same mechanism, impact and intensity, whatever the flag was and
\* whatever the sentiment capability did in each call.
C25_KeywordIndependent ==
  \A a, b \in DOMAIN hres :
    hres[a].fn = hres[b].fn =>
      /\ hres[a].mechanism = hres[b].mechanism
      /\ hres[a].impact = hres[b].impact
      /\ hres[a].intensity = hres[b].intensity

\* two calls of one function on bearish headlines, the first with the flag
\* off, whose sentiment fields differ
C25_Witness ==
  /\ Len(hres) >= 2
  /\ hres[1].fn = hres[2].fn
  /\ hres[1].impact = "Bearish"
  /\ ~hres[1].enable_models
  /\ hres[2].enable_models
  /\ hres[2].sentiment = "Positive"

\* ------------------------------------ cluster_headlines on more headlines
\* The pro script on up to MaxHeadlines articles, none of them dated and
\* transformers absent, so that the communities need not cover the table.

MaxHeadlines == 3

InitHeadlines ==
  /\ app = "pro"
  /\ enable_models \in BOOLEAN
  /\ has_tx = FALSE
  /\ has_st \in BOOLEAN
  /\ \E k \in 0..MaxHeadlines :
       \E t \in [1..k -> PipeTitles] :
         raw = [p \in 1..k |->
                  [title |-> t[p],
                   date |-> [kind |-> "missing", day |-> 0, tod |-> 0],
                   url |-> p]]
  /\ end_date = [kind |-> "datetime", day |-> 2, tod |-> 1]
  /\ days_back = 1
  /\ articles = <<>>
  /\ df = <<>>
  /\ npc = "map"
  /\ embeddings = <<>>
  /\ threshold = 20
  /\ min_size = 2
  /\ visited = {}
  /\ clusters = <<>>
  /\ group = <<>>
  /\ i = 0
  /\ added = FALSE
  /\ pc = "idle"
  /\ calls = 1
  /\ prevClusters = <<>>
  /\ prevThreshold = 0
  /\ called = {}
  /\ cluster_rows = <<>>
  /\ ppc = "idle"
  /\ EmbedIdle /\ KwIdle /\ SentIdle /\ MoodIdle /\ MoreIdle

NextHeadlines ==
  \/ MapNorm \/ DateFilter \/ StopOrDedup
  \/ EmbedStage
  \/ ClusterHeadlines
  \/ RowsStage
  \/ MoodStage

SpecHeadlines == InitHeadlines /\ [][NextHeadlines]_vars

\* C26: the clusters returned by cluster_headlines cover every index
\* 0..n-1 of the table: an index that is in no community is returned as its
\* own singleton cluster.
C26_HeadlinesCovered ==
  (app = "pro" /\ pc = "done") =>
    \A x \in 0..(Len(df) - 1) :
      \E c \in DOMAIN clusters : x \in SeqToSet(clusters[c])

\* ------------------------------------------------ termination of a call

\* what one step of a call may do to visited, i and added
StepBounded ==
  /\ (pc = "while" /\ added /\ pc' = "while") =>
       \/ visited' # visited /\ visited \subseteq visited'
       \/ ~added'
  /\ calls' = calls => (visited \subseteq visited' /\ i' >= i)
  /\ (pc = "for" /\ pc' = "while") => (i < n /\ i \notin visited /\ i \in visited')

\* C27: a call ends.  Every pass of the while loop adds an unvisited index
\* to visited or is the last pass of its seed, visited never shrinks during
\* a call, a seed is an index below n that was not visited before (so there
\* are at most n seeds), and the call reaches its return.
C27_Terminates ==
  /\ [][StepBounded]_vars
  /\ [](i <= n /\ visited \subseteq 0..(n - 1))
  /\ (pc # "done") ~> (pc = "done")

\* a call has returned a chain: index 0 reaches index 1 only through index
\* 2, which takes two adding passes and a last pass without addition
C27_Witness ==
  /\ pc = "done"
  /\ n >= 3
  /\ sims(0, 1) < threshold
  /\ sims(0, 2) >= threshold
  /\ sims(1, 2) >= threshold

\* ------------------------------------------------ order of the members

\* C28: a retained cluster lists its members in first-discovered order: the
\* seed first, then each index in the order in which the closure loop
\* appended it to the group.  (Between the end of a seed and the next seed,
\* group still holds the group of the seed that has just ended.)
C28_DiscoveryOrder ==
  (pc = "for" /\ group # <<>> /\ Len(group) >= min_size) =>
    clusters[Len(clusters)] = group

\* --------------------------------------------- the same items, reordered
\* cluster_by_cosine_threshold is called on a list of embeddings and then on
\* a reordering of the same list.  Reorder keeps the first result in
\* prevClusters, written in the indices of the reordered list.

MaxItems == 3

InitReorder ==
  /\ \E k \in 0..MaxItems : embeddings \in [1..k -> Vectors]
  /\ threshold \in Thresholds
  /\ min_size \in 1..MaxMinSize
  /\ visited = {}
  /\ clusters = <<>>
  /\ group = <<>>
  /\ i = 0
  /\ added = FALSE
  /\ pc = "for"
  /\ calls = 1
  /\ prevClusters = <<>>
  /\ prevThreshold = 0
  /\ NormIdle
  /\ EnvIdle /\ EmbedIdle /\ KwIdle /\ SentIdle /\ MoodIdle /\ PipeIdle /\ MoreIdle

\* the bijections of 1..m
Perms(m) == {f \in [1..m -> 1..m] : \A x, y \in 1..m : f[x] = f[y] => x = y}

\* position k of the reordered list holds the item that was at position
\* f[k]; NewIndex is the 0-based index at which the item of old index x is
\* found afterwards
NewIndex(f, x) == (CHOOSE k \in DOMAIN f : f[k] = x + 1) - 1

Reorder ==
  /\ pc = "done"
  /\ calls < MaxCalls
  /\ \E f \in Perms(n) :
       /\ embeddings' = [k \in 1..n |-> embeddings[f[k]]]
       /\ prevClusters' = [c \in DOMAIN clusters |->
                             [x \in DOMAIN clusters[c] |-> NewIndex(f, clusters[c][x])]]
  /\ prevThreshold' = threshold
  /\ calls' = calls + 1
  /\ visited' = {}
  /\ clusters' = <<>>
  /\ group' = <<>>
  /\ i' = 0
  /\ added' = FALSE
  /\ pc' = "for"
  /\ UNCHANGED <<threshold, min_size>>
  /\ UNCHANGED <<normVars, restVars>>

NextReorder == Seed \/ Pass \/ Retain \/ Finish \/ Reorder

SpecReorder == InitReorder /\ [][NextReorder]_vars

\* a list of clusters as a set of sets of indices
AsSets(cs) == {SeqToSet(cs[c]) : c \in DOMAIN cs}

\* C29: the call on the reordered list returns the clusters of the call on
\* the original list, with each index renamed by the reordering: as sets of
\* items the two results are the same.
C29_OrderIndependent ==
  (pc = "done" /\ calls >= 2) => AsSets(clusters) = AsSets(prevClusters)

\* the second call has returned for a chain of three items whose middle
\* item was moved from index 1 to the front
C29_Witness ==
  /\ pc = "done"
  /\ calls >= 2
  /\ n = 3
  /\ sims(0, 1) >= threshold
  /\ sims(0, 2) >= threshold
  /\ sims(1, 2) < threshold
  /\ prevClusters = <<<<1, 0, 2>>>>
  /\ clusters = <<<<0, 1, 2>>>>

\* ------------------------------------------- safe_request (news_scraper.py)
\* One call safe_request(url, max_retries).  requests_made counts the calls
\* of requests.get, errors lists the exceptions passed to logger.error,
\* slept lists the arguments of time.sleep, response is the value returned
\* ("none" before the return, "None" for None).  A request fails by raising
\* a requests.exceptions.RequestException.

MaxRetries == 3

\* the RequestException subclasses of a failed request: no connection, no
\* answer within timeout=10, or raise_for_status() on a 4xx/5xx answer
RequestExceptions == {"ConnectionError", "Timeout", "HTTPError"}

InitRequest ==
  /\ max_retries \in 0..MaxRetries
  /\ attempt = 0
  /\ requests_made = 0
  /\ errors = <<>>
  /\ slept = <<>>
  /\ response = "none"
  /\ rpc = "try"
  /\ ThemeIdle /\ HybIdle
  /\ ClusterIdle /\ NormIdle
  /\ EnvIdle /\ EmbedIdle /\ KwIdle /\ SentIdle /\ MoodIdle /\ PipeIdle

\* the try block of one iteration of `for attempt in range(max_retries)`:
\* requests.get and raise_for_status, then `return response`, or the
\* logger.error of the except block
Attempt ==
  /\ rpc = "try"
  /\ attempt < max_retries
  /\ requests_made' = requests_made + 1
  /\ \/ /\ response' = "response"
        /\ rpc' = "returned"
        /\ UNCHANGED errors
     \/ \E e \in RequestExceptions :
          /\ errors' = Append(errors, e)
          /\ rpc' = "except"
          /\ UNCHANGED response
  /\ UNCHANGED <<max_retries, attempt, slept>>
  /\ UNCHANGED <<themeVars, hybVars>>
  /\ UNCHANGED <<clusterVars, normVars, envVars, embedVars, kwVars, sentVars, moodVars, pipeVars>>

\* the except block without the test of the attempt number
BackoffAlways ==
  /\ rpc = "except"
  /\ slept' = Append(slept, 2 * (attempt + 1))
  /\ attempt' = attempt + 1
  /\ rpc' = "try"
  /\ UNCHANGED response
  /\ UNCHANGED <<max_retries, requests_made, errors>>
  /\ UNCHANGED <<themeVars, hybVars>>
  /\ UNCHANGED <<clusterVars, normVars, envVars, embedVars, kwVars, sentVars, moodVars, pipeVars>>

\* the rest of the except block: sleep and go round again, or return None
\* after the last attempt
Backoff ==
  /\ rpc = "except"
  /\ IF attempt < max_retries - 1
     THEN /\ slept' = Append(slept, 2 * (attempt + 1))
          /\ attempt' = attempt + 1
          /\ rpc' = "try"
          /\ UNCHANGED response
     ELSE /\ response' = "None"
          /\ rpc' = "returned"
          /\ UNCHANGED <<attempt, slept>>
  /\ UNCHANGED <<max_retries, requests_made, errors>>
  /\ UNCHANGED <<themeVars, hybVars>>
  /\ UNCHANGED <<clusterVars, normVars, envVars, embedVars, kwVars, sentVars, moodVars, pipeVars>>

\* range(max_retries) is exhausted without a return: the function falls
\* off its end, which returns None
FallThrough ==
  /\ rpc = "try"
  /\ attempt >= max_retries
  /\ response' = "None"
  /\ rpc' = "returned"
  /\ UNCHANGED <<max_retries, attempt, requests_made, errors, slept>>
  /\ UNCHANGED <<themeVars, hybVars>>
  /\ UNCHANGED <<clusterVars, normVars, envVars, embedVars, kwVars, sentVars, moodVars, pipeVars>>

NextRequest == Attempt \/ Backoff \/ FallThrough

SpecRequest == InitRequest /\ [][NextRequest]_vars

\* the number of failed requests so far
Failed == Len(errors)

====
